---- MODULE Spec2Model ----
(***************************************************************************)
(* Model of slims: the probe-identity reconciler                           *)
(* (Dumper.probe_serial_number_to_letter), the dumper constructor          *)
(* (SqlAlchemy.__init__), the upsert writer (SqlAlchemy.to_db) and the     *)
(* per-session driver loop of ingest_from_session.py, over the relational  *)
(* schema of tables.py.                                                    *)
(*                                                                         *)
(* Python dicts are insertion-ordered: a dict is a sequence of             *)
(* <<key, value>> pairs with distinct keys.  Tables are sequences of rows  *)
(* in insertion order.  Strings that the code searches (probe types) are   *)
(* sequences of characters.                                                *)
(***************************************************************************)
EXTENDS Integers, Sequences, FiniteSets, TLC

VARIABLES
    dumper,        \* the Dumper object: its attributes and construction outcome
    result,        \* outcome of the last evaluation of probe_serial_number_to_letter
    disk,          \* the sessions of the file-based session storage
    store,         \* the committed content of the database, table -> rows
    session_tx,    \* state of the transaction of the global ORM session
    session_new,   \* pending objects of the global ORM session
    runs,          \* number of to_db calls made so far
    last,          \* record of the last to_db call (history)
    committed,     \* objects of the to_db runs that committed (history)
    sessions_json, \* the driver's input list
    idx,           \* the driver's position in sessions_json
    driver,        \* "running", "done" or "crashed"
    log            \* one entry per session the driver attempted

vars == <<dumper, result, disk, store, session_tx, session_new, runs, last,
          committed, sessions_json, idx, driver, log>>

(***************************************************************************)
(* Bounds                                                                  *)
(***************************************************************************)
MaxProbes == 2

MaxRuns == 3

MaxSessions == 3

(***************************************************************************)
(* Python values                                                           *)
(***************************************************************************)
None == "None"

Min(a, b) == IF a <= b THEN a ELSE b

Range(s) == {s[i] : i \in 1..Len(s)}

SeqsUpTo(S, n) == UNION {[1..k -> S] : k \in 0..n}

Injective(s) == \A i, j \in 1..Len(s) : s[i] = s[j] => i = j

\* zip(a, b): pairs up to the shorter argument
Zip(a, b) == [i \in 1..Min(Len(a), Len(b)) |-> <<a[i], b[i]>>]

DictKeys(d) == {d[i][1] : i \in 1..Len(d)}

DictValues(d) == [i \in 1..Len(d) |-> d[i][2]]

DictHas(d, k) == k \in DictKeys(d)

DictGet(d, k) == d[CHOOSE i \in 1..Len(d) : d[i][1] = k][2]

\* d[k] = v: an existing key keeps its position, a new key is appended
DictPut(d, k, v) ==
    IF DictHas(d, k)
    THEN [i \in 1..Len(d) |-> IF d[i][1] = k THEN <<k, v>> ELSE d[i]]
    ELSE Append(d, <<k, v>>)

RECURSIVE DictFromPairs(_)
\* dict(pairs) and {k: v for ...}: later pairs overwrite earlier ones
DictFromPairs(pairs) ==
    IF pairs = <<>> THEN <<>>
    ELSE LET n == Len(pairs)
         IN DictPut(DictFromPairs(SubSeq(pairs, 1, n - 1)), pairs[n][1], pairs[n][2])

\* the set of dicts with keys in K and values in V
Dicts(K, V) ==
    {d \in SeqsUpTo(K \X V, Cardinality(K)) : Injective([i \in 1..Len(d) |-> d[i][1]])}

(***************************************************************************)
(* Dumper.probe_serial_number_to_letter                                    *)
(***************************************************************************)
Ok(v) == [raised |-> None, value |-> v]

Raise(e) == [raised |-> e, value |-> <<>>]

\* the fallback branch alone (lines 39-40)
LetterFromMetricsCsv(self) ==
    LET l2c == self.probe_letter_to_metrics_csv
        s2c == self.probe_serial_number_to_metrics_csv
        metrics_csv_to_probe_letter ==
            DictFromPairs([i \in 1..Len(l2c) |-> <<l2c[i][2], l2c[i][1]>>])
    IN  IF \E i \in 1..Len(s2c) : ~DictHas(metrics_csv_to_probe_letter, s2c[i][2])
        THEN Raise("KeyError")
        ELSE Ok(DictFromPairs([i \in 1..Len(s2c) |->
                    <<s2c[i][1], DictGet(metrics_csv_to_probe_letter, s2c[i][2])>>]))

\* a reconciler that never consults the configuration record
probe_serial_number_to_letter_FromMetricsOnly(self) == LetterFromMetricsCsv(self)

probe_serial_number_to_letter(self) ==
    IF self.settings_xml_info.present
    THEN Ok(DictFromPairs(Zip(self.settings_xml_info.probe_serial_numbers,
                              self.settings_xml_info.probe_letters)))
    ELSE LetterFromMetricsCsv(self)

(***************************************************************************)
(* The session storage (np_session.Session, SettingsXmlInfo): what the     *)
(* code reads from a session.                                              *)
(***************************************************************************)
SerialNumbers == {101, 102}

MetricsLetters == {"A", "B"}

Str_1_0 == <<"1", ".", "0">>

Str_Ultra == <<"U", "l", "t", "r", "a">>

Str_unknown == <<"u", "n", "k", "n", "o", "w", "n">>

Str_Neuropixels == <<"N", "e", "u", "r", "o", "p", "i", "x", "e", "l", "s", " ">>

\* type strings a settings.xml may carry for a probe
ProbeTypeStrings ==
    { Str_Neuropixels \o Str_1_0,
      Str_Neuropixels \o Str_Ultra,
      Str_Neuropixels \o <<"2", ".", "0">>,
      Str_Ultra \o <<" ">> \o Str_1_0 }

\* the two of them used where several sessions share the database
CommonProbeTypeStrings ==
    { Str_Neuropixels \o Str_1_0,
      Str_Neuropixels \o <<"2", ".", "0">> }

NoSettingsXmlInfo ==
    [present |-> FALSE, settings_xml_md5 |-> None, hostname |-> None, date |-> None,
     start_time |-> None, open_ephys_version |-> None,
     probe_serial_numbers |-> <<>>, probe_letters |-> <<>>, probe_types |-> <<>>]

SettingsXmlMd5(id) == <<"md5(settings.xml of session 1)", "md5(settings.xml of session 2)">>[id]

\* the records settings_xml_info_from_path can yield for session id: parallel
\* sequences of equal length, distinct serial numbers, distinct non-null letters
SettingsXmlInfos(id, types) ==
    {[present |-> TRUE, settings_xml_md5 |-> SettingsXmlMd5(id), hostname |-> "W10DT05516",
      date |-> "2022-08-02", start_time |-> "13:24:35", open_ephys_version |-> "0.6.1",
      probe_serial_numbers |-> sn, probe_letters |-> pl, probe_types |-> pt] :
        <<sn, pl, pt>> \in
          {t \in SeqsUpTo(SerialNumbers, MaxProbes) \X SeqsUpTo(MetricsLetters \cup {None}, MaxProbes)
                   \X SeqsUpTo(types, MaxProbes) :
              /\ Len(t[1]) = Len(t[2]) /\ Len(t[1]) = Len(t[3])
              /\ Injective(t[1])
              /\ \A i, j \in 1..Len(t[2]) : (t[2][i] = t[2][j] /\ t[2][i] # None) => i = j}}

\* the metrics csv of probe `letter` of session `id`
MetricsCsvPath(id, letter) == <<id, letter>>

Rig(id) == IF id = 1 THEN "NP.1" ELSE None

\* the sessions the storage can hold under identifier id
DiskSessions(id, types) ==
    {[id |-> id, rig |-> Rig(id),
      probe_letter_to_metrics_csv_path |-> [i \in 1..Len(ls) |-> <<ls[i], MetricsCsvPath(id, ls[i])>>],
      settings_xml |-> x] :
        ls \in {<<>>, <<"A">>, <<"B">>, <<"A", "B">>},
        x \in SettingsXmlInfos(id, types) \cup {NoSettingsXmlInfo}}

(***************************************************************************)
(* SqlAlchemy.__init__                                                     *)
(***************************************************************************)
NoDumper ==
    [session |-> [id |-> 0, rig |-> None], settings_xml_info |-> NoSettingsXmlInfo,
     probe_letter_to_metrics_csv |-> <<>>, probe_serial_number_to_metrics_csv |-> <<>>]

\* the constructor raised: there is no object
NotConstructed(e) == [raised |-> e, value |-> NoDumper]

\* a constructor without the check for metrics files (lines 55-56)
SqlAlchemy_NoMetricsCheck(session) ==
    LET l2c == session.probe_letter_to_metrics_csv_path
        xml == session.settings_xml
        half == [session |-> [id |-> session.id, rig |-> session.rig],
                 settings_xml_info |-> xml,
                 probe_letter_to_metrics_csv |-> l2c,
                 probe_serial_number_to_metrics_csv |-> <<>>]
        s2l == probe_serial_number_to_letter(half).value
        items == SelectSeq(s2l, LAMBDA kv : kv[2] # None)
    IN  IF ~xml.present THEN NotConstructed("ValueError")
        ELSE IF \E i \in 1..Len(items) : ~DictHas(l2c, items[i][2]) THEN NotConstructed("KeyError")
        ELSE Ok([half EXCEPT !.probe_serial_number_to_metrics_csv =
                    DictFromPairs([i \in 1..Len(items) |->
                        <<items[i][1], DictGet(l2c, items[i][2])>>])])

SqlAlchemy(session) ==
    LET l2c == session.probe_letter_to_metrics_csv_path
        xml == session.settings_xml
        half == [session |-> [id |-> session.id, rig |-> session.rig],
                 settings_xml_info |-> xml,
                 probe_letter_to_metrics_csv |-> l2c,
                 probe_serial_number_to_metrics_csv |-> <<>>]
        s2l == probe_serial_number_to_letter(half).value
        items == SelectSeq(s2l, LAMBDA kv : kv[2] # None)
    IN  IF l2c = <<>> THEN NotConstructed("ValueError")
        ELSE IF ~xml.present THEN NotConstructed("ValueError")
        ELSE IF \E i \in 1..Len(items) : ~DictHas(l2c, items[i][2]) THEN NotConstructed("KeyError")
        ELSE Ok([half EXCEPT !.probe_serial_number_to_metrics_csv =
                    DictFromPairs([i \in 1..Len(items) |->
                        <<items[i][1], DictGet(l2c, items[i][2])>>])])

(***************************************************************************)
(* tables.py: the schema, and the rows written when the module is imported *)
(***************************************************************************)
PK(table, row) ==
    CASE table = "lims_ecephys_sessions" -> <<row.lims_id>>
      [] table = "recordings" -> <<row.settings_xml_md5>>
      [] table = "probes" -> <<row.serial_number>>
      [] table = "probe_recordings" -> <<row.settings_xml_md5, row.probe_serial_number>>
      [] table = "sorted_units" -> <<row.metrics_csv_md5, row.unit_id>>

\* an ORM object: its table, its row, and the attributes its constructor was given
Obj(table, row, attrs) == [table |-> table, row |-> row, attrs |-> attrs]

LIMSEcephysSession(lims_id) ==
    Obj("lims_ecephys_sessions", [lims_id |-> lims_id], {"lims_id"})

Recording(settings_xml_md5, lims_session_id, hostname, rig, date, start_time, open_ephys_version) ==
    Obj("recordings",
        [settings_xml_md5 |-> settings_xml_md5, lims_session_id |-> lims_session_id,
         hostname |-> hostname, rig |-> rig, date |-> date, start_time |-> start_time,
         duration |-> None, open_ephys_version |-> open_ephys_version],
        {"settings_xml_md5", "lims_session_id", "hostname", "rig", "date", "start_time",
         "open_ephys_version"})

NeuropixelsVersion == <<Str_1_0, Str_Ultra>>

Probe(serial_number, neuropixels_version) ==
    Obj("probes", [serial_number |-> serial_number, neuropixels_version |-> neuropixels_version],
        {"serial_number", "neuropixels_version"})

ProbeRecording(settings_xml_md5, probe_serial_number, probe_letter, metrics_csv_md5) ==
    Obj("probe_recordings",
        [settings_xml_md5 |-> settings_xml_md5, probe_serial_number |-> probe_serial_number,
         probe_letter |-> probe_letter, metrics_csv_md5 |-> metrics_csv_md5],
        {"settings_xml_md5", "probe_serial_number", "probe_letter", "metrics_csv_md5"})

\* the 11-digit serial number 18005117142 of Probe.dummy, cut to fit a 32-bit integer
DummySerialNumber == 1800511714

DummyLimsId == 12345678

DummyRecording ==
    Recording("md5(dummy)", DummyLimsId, "localhost", "NP.1", "2021-01-01", "12:00:00", "0.4.1")

EmptyStore ==
    [lims_ecephys_sessions |-> <<>>, recordings |-> <<>>, probes |-> <<>>,
     probe_recordings |-> <<>>, sorted_units |-> <<>>]

\* the database after `import slims.tables`: created empty, then the dummy rows
ImportedStore ==
    [EmptyStore EXCEPT
        !.recordings = <<DummyRecording.row>>,
        !.probes = <<Probe(DummySerialNumber, Str_1_0).row>>,
        !.probe_recordings =
            <<ProbeRecording("md5(dummy)", DummySerialNumber, "A", <<>>).row>>,
        !.lims_ecephys_sessions = <<LIMSEcephysSession(DummyLimsId).row>>]

Tables == DOMAIN EmptyStore

\* content hash of a metrics csv (tables.md5)
Md5(path) == <<"md5", path>>

\* the unit ids of the rows of a metrics csv
MetricsCsvUnitIds(path) == IF path[2] = "A" THEN <<0, 1>> ELSE <<0>>

\* SortedUnit.from_csv_path: one record per row of the metrics file
SortedUnit_from_csv_path(csv_path) ==
    [i \in 1..Len(MetricsCsvUnitIds(csv_path)) |->
        Obj("sorted_units",
            [metrics_csv_md5 |-> Md5(csv_path), unit_id |-> MetricsCsvUnitIds(csv_path)[i]],
            {"metrics_csv_md5", "unit_id"})]

(***************************************************************************)
(* SqlAlchemy.to_db: the records it builds (lines 72-117)                  *)
(***************************************************************************)
\* t in s, for strings
Contains(s, t) == \E i \in 1..(Len(s) - Len(t) + 1) : SubSeq(s, i, i + Len(t) - 1) = t

\* a classifier that takes the last matching tag instead of the first
neuropixels_version_LastMatch(np_type) ==
    LET hits == SelectSeq(NeuropixelsVersion, LAMBDA v : Contains(np_type, v))
    IN  IF hits = <<>> THEN Str_unknown ELSE hits[Len(hits)]

\* next((_ for _ in probe_types if _ in np_type), 'unknown')
neuropixels_version(np_type) ==
    LET hits == SelectSeq(NeuropixelsVersion, LAMBDA v : Contains(np_type, v))
    IN  IF hits = <<>> THEN Str_unknown ELSE hits[1]

\* a probe loop that stops one short
probes_DropLast(xml) ==
    LET z == Zip(xml.probe_serial_numbers, xml.probe_types)
    IN  [i \in 1..(Len(z) - 1) |-> Probe(z[i][1], neuropixels_version(z[i][2]))]

probes(xml) ==
    LET z == Zip(xml.probe_serial_numbers, xml.probe_types)
    IN  [i \in 1..Len(z) |-> Probe(z[i][1], neuropixels_version(z[i][2]))]

\* raises KeyError for a serial number that has no metrics csv
sorted_probes(self) ==
    LET xml == self.settings_xml_info
        s2l == probe_serial_number_to_letter(self)
        s2c == self.probe_serial_number_to_metrics_csv
    IN  IF s2l.raised # None THEN Raise(s2l.raised)
        ELSE IF \E i \in 1..Len(s2l.value) : ~DictHas(s2c, s2l.value[i][1])
        THEN Raise("KeyError")
        ELSE Ok([i \in 1..Len(s2l.value) |->
                    ProbeRecording(xml.settings_xml_md5, s2l.value[i][1], s2l.value[i][2],
                                   Md5(DictGet(s2c, s2l.value[i][1])))])

sorted_units(self) ==
    LET csvs == DictValues(self.probe_serial_number_to_metrics_csv)
    IN  [i \in 1..Len(csvs) |-> SortedUnit_from_csv_path(csvs[i])]

\* nested iterables of objects, as rec_write walks them
Leaf(obj) == [leaf |-> TRUE, obj |-> obj, items |-> <<>>]

Node(items) == [leaf |-> FALSE, obj |-> <<>>, items |-> items]

RECURSIVE rec_write(_)
\* the objects rec_write hands to write, in order
rec_write(iterable) ==
    IF iterable.leaf THEN <<iterable.obj>>
    ELSE IF iterable.items = <<>> THEN <<>>
    ELSE rec_write(Head(iterable.items)) \o rec_write(Node(Tail(iterable.items)))

\* the objects to_db writes, in write order
to_db_objects(self) ==
    LET xml == self.settings_xml_info
        lims == LIMSEcephysSession(self.session.id)
        rec == Recording(xml.settings_xml_md5, self.session.id, xml.hostname,
                         self.session.rig, xml.date, xml.start_time, xml.open_ephys_version)
        sp == sorted_probes(self)
        su == sorted_units(self)
        tree == Node(<<
            Node([i \in 1..Len(probes(xml)) |-> Leaf(probes(xml)[i])]),
            Node([i \in 1..Len(sp.value) |-> Leaf(sp.value[i])]),
            Node([i \in 1..Len(su) |-> Node([j \in 1..Len(su[i]) |-> Leaf(su[i][j])])]) >>)
    IN  IF ~xml.present THEN Raise("ValueError")
        ELSE IF sp.raised # None THEN Raise(sp.raised)
        ELSE Ok(<<lims, rec>> \o rec_write(tree))

(***************************************************************************)
(* The ORM session tables.SESSION (lines 118-137): merge / add, then       *)
(* commit.  Autoflush is off, so nothing reaches the database before the   *)
(* commit's flush.  st = [db, new]: the rows as the transaction sees them  *)
(* and the pending objects.                                                *)
(***************************************************************************)
HasPk(db, table, pk) == \E i \in 1..Len(db[table]) : PK(table, db[table][i]) = pk

\* session.add(obj): the object becomes pending
add(st, obj) == [st EXCEPT !.new = Append(@, obj)]

\* session.merge(obj): the attributes given to obj are copied onto the row that
\* has its primary key; without such a row a copy of obj becomes pending
merge(st, obj) ==
    IF HasPk(st.db, obj.table, PK(obj.table, obj.row))
    THEN [st EXCEPT !.db[obj.table] =
            [i \in 1..Len(@) |->
                IF PK(obj.table, @[i]) = PK(obj.table, obj.row)
                THEN [c \in DOMAIN @[i] |-> IF c \in obj.attrs THEN obj.row[c] ELSE @[i][c]]
                ELSE @[i]]]
    ELSE add(st, obj)

\* a writer that adds whatever the flag says
write_AlwaysAdd(st, obj, overwrite_existing) == add(st, obj)

\* a writer that merges whatever the flag says
write_AlwaysMerge(st, obj, overwrite_existing) == merge(st, obj)

write(st, obj, overwrite_existing) ==
    IF overwrite_existing THEN merge(st, obj) ELSE add(st, obj)

RECURSIVE write_all(_, _, _)
write_all(st, objs, overwrite_existing) ==
    IF objs = <<>> THEN st
    ELSE write_all(write(st, Head(objs), overwrite_existing), Tail(objs), overwrite_existing)

RECURSIVE flush(_)
\* the INSERTs of the pending objects; a primary key that exists is an IntegrityError
flush(st) ==
    IF st.new = <<>> THEN [raised |-> None, db |-> st.db]
    ELSE LET obj == Head(st.new)
         IN  IF HasPk(st.db, obj.table, PK(obj.table, obj.row))
             THEN [raised |-> "DuplicateKey", db |-> st.db]
             ELSE flush([db |-> [st.db EXCEPT ![obj.table] = Append(@, obj.row)],
                         new |-> Tail(st.new)])

\* what a failed commit leaves: the transaction rolled back, the pending objects
\* expunged, and the session unusable until rollback() is called (never called)
rolled_back(db, raised) ==
    [raised |-> raised, store |-> db, session_tx |-> "deactive", session_new |-> <<>>]

\* a session whose failed commit keeps what the flush had written
session_write_commit_NoRollback(db, tx, new, objs, overwrite_existing, commit_fails) ==
    LET st == write_all([db |-> db, new |-> new], objs, overwrite_existing)
        fl == flush(st)
    IN  IF fl.raised # None
        THEN [raised |-> fl.raised, store |-> fl.db, session_tx |-> "active", session_new |-> <<>>]
        ELSE IF commit_fails
        THEN [raised |-> "StorageFailure", store |-> fl.db, session_tx |-> "active",
              session_new |-> <<>>]
        ELSE [raised |-> None, store |-> fl.db, session_tx |-> "active", session_new |-> <<>>]

\* the with-block of to_db on the global session
session_write_commit(db, tx, new, objs, overwrite_existing, commit_fails) ==
    IF tx = "deactive"
    THEN [raised |-> "PendingRollback", store |-> db, session_tx |-> tx,
          session_new |-> IF overwrite_existing THEN new ELSE new \o objs]
    ELSE LET st == write_all([db |-> db, new |-> new], objs, overwrite_existing)
             fl == flush(st)
         IN  IF fl.raised # None THEN rolled_back(db, fl.raised)
             ELSE IF commit_fails THEN rolled_back(db, "StorageFailure")
             ELSE [raised |-> None, store |-> fl.db, session_tx |-> "active",
                   session_new |-> <<>>]

\* SqlAlchemy.to_db as a whole
to_db(self, db, tx, new, overwrite_existing, commit_fails) ==
    LET objs == to_db_objects(self)
    IN  IF objs.raised # None
        THEN [raised |-> objs.raised, store |-> db, session_tx |-> tx, session_new |-> new]
        ELSE session_write_commit(db, tx, new, objs.value, overwrite_existing, commit_fails)

(***************************************************************************)
(* Initial values                                                          *)
(***************************************************************************)
NoResult == [evaluated |-> FALSE, raised |-> None, value |-> <<>>]

NoLast ==
    [op |-> "none", input |-> 0, overwrite_existing |-> FALSE, commit_fails |-> FALSE,
     raised |-> None, before |-> ImportedStore, repeat |-> FALSE, objs |-> <<>>]

\* a well-formed second session, recorded with probe 101 of the first one
OtherSession ==
    [id |-> 2, rig |-> Rig(2),
     probe_letter_to_metrics_csv_path |-> << <<"A", MetricsCsvPath(2, "A")>> >>,
     settings_xml |->
        [present |-> TRUE, settings_xml_md5 |-> SettingsXmlMd5(2), hostname |-> "W10DT05516",
         date |-> "2022-08-03", start_time |-> "10:02:11", open_ephys_version |-> "0.6.1",
         probe_serial_numbers |-> <<101>>, probe_letters |-> <<"A">>,
         probe_types |-> <<Str_Neuropixels \o Str_Ultra>>]]

RowsOf(db) == UNION {{<<t, db[t][i]>> : i \in 1..Len(db[t])} : t \in Tables}

InitStore ==
    /\ store = ImportedStore
    /\ session_tx = "active"
    /\ session_new = <<>>
    /\ runs = 0
    /\ last = NoLast
    /\ committed = RowsOf(ImportedStore)

InitDriverIdle ==
    /\ sessions_json = <<>>
    /\ idx = 1
    /\ driver = "done"
    /\ log = <<>>

(***************************************************************************)
(* SpecReconcile: probe_serial_number_to_letter on any Dumper              *)
(***************************************************************************)
\* the configuration records of a Dumper: any two sequences
DumperSettingsXmlInfos ==
    {[NoSettingsXmlInfo EXCEPT !.present = TRUE, !.settings_xml_md5 = SettingsXmlMd5(1),
                               !.probe_serial_numbers = sn, !.probe_letters = pl] :
        sn \in SeqsUpTo(SerialNumbers, MaxProbes),
        pl \in SeqsUpTo(MetricsLetters \cup {None}, MaxProbes)}

MetricsCsvPaths == {MetricsCsvPath(1, l) : l \in MetricsLetters}

Dumpers ==
    {[NoDumper EXCEPT !.settings_xml_info = x,
                      !.probe_letter_to_metrics_csv = l2c,
                      !.probe_serial_number_to_metrics_csv = s2c] :
        x \in DumperSettingsXmlInfos \cup {NoSettingsXmlInfo},
        l2c \in Dicts(MetricsLetters, MetricsCsvPaths),
        s2c \in Dicts(SerialNumbers, MetricsCsvPaths)}

InitReconcile ==
    /\ dumper \in {Ok(d) : d \in Dumpers}
    /\ result = NoResult
    /\ disk = <<>>
    /\ InitStore
    /\ InitDriverIdle

Evaluate ==
    /\ ~result.evaluated
    /\ LET r == probe_serial_number_to_letter(dumper.value)
       IN  result' = [evaluated |-> TRUE, raised |-> r.raised, value |-> r.value]
    /\ UNCHANGED <<dumper, disk, store, session_tx, session_new, runs, last, committed,
                   sessions_json, idx, driver, log>>

NextReconcile == Evaluate

SpecReconcile == InitReconcile /\ [][NextReconcile]_vars

(***************************************************************************)
(* Spec: constructor and to_db calls against the one database              *)
(***************************************************************************)
Init ==
    /\ disk \in {<<c, OtherSession>> : c \in DiskSessions(1, CommonProbeTypeStrings)}
    /\ dumper = NotConstructed("unconstructed")
    /\ result = NoResult
    /\ InitStore
    /\ InitDriverIdle

\* d = SqlAlchemy(session)
Construct(i) ==
    /\ dumper' = SqlAlchemy(disk[i])
    /\ UNCHANGED <<result, disk, store, session_tx, session_new, runs, last, committed,
                   sessions_json, idx, driver, log>>

\* the effect of d.to_db(overwrite_existing) on the database, the session and the history
RunToDb(d, overwrite_existing, commit_fails) ==
    LET r == to_db(d, store, session_tx, session_new, overwrite_existing, commit_fails)
        objs == to_db_objects(d)
    IN  /\ store' = r.store
        /\ session_tx' = r.session_tx
        /\ session_new' = r.session_new
        /\ runs' = runs + 1
        /\ last' = [op |-> "to_db", input |-> d.session.id,
                    overwrite_existing |-> overwrite_existing, commit_fails |-> commit_fails,
                    raised |-> r.raised, before |-> store,
                    repeat |-> (last.op = "to_db" /\ last.raised = None
                                /\ last.input = d.session.id),
                    objs |-> objs.value]
        /\ committed' = IF r.raised = None
                        THEN committed \cup {<<objs.value[i].table, objs.value[i].row>> :
                                                i \in 1..Len(objs.value)}
                        ELSE committed

\* d.to_db(overwrite_existing)
ToDb(overwrite_existing, commit_fails) ==
    /\ dumper.raised = None
    /\ runs < MaxRuns
    /\ RunToDb(dumper.value, overwrite_existing, commit_fails)
    /\ UNCHANGED <<dumper, result, disk, sessions_json, idx, driver, log>>

Next ==
    \/ \E i \in 1..Len(disk) : Construct(i)
    \/ \E overwrite_existing, commit_fails \in BOOLEAN : ToDb(overwrite_existing, commit_fails)

Spec == Init /\ [][Next]_vars

(***************************************************************************)
(* SpecIngest: one session of any shape, constructed and written           *)
(***************************************************************************)
InitIngest ==
    /\ disk \in {<<c>> : c \in DiskSessions(1, ProbeTypeStrings)}
    /\ dumper = NotConstructed("unconstructed")
    /\ result = NoResult
    /\ InitStore
    /\ InitDriverIdle

SpecIngest == InitIngest /\ [][Next]_vars

(***************************************************************************)
(* SpecDriver: the __main__ loop over sessions.json (lines 148-157)        *)
(***************************************************************************)
InitDriver ==
    /\ disk \in {<<c, OtherSession>> : c \in DiskSessions(1, {Str_Neuropixels \o Str_1_0})}
    /\ dumper = NotConstructed("unconstructed")
    /\ result = NoResult
    /\ InitStore
    /\ sessions_json \in SeqsUpTo(1..2, MaxSessions)
    /\ idx = 1
    /\ driver = "running"
    /\ log = <<>>

Attempting == driver = "running" /\ idx <= Len(sessions_json)

Logged(raised, db) ==
    Append(log, [pos |-> idx, session |-> sessions_json[idx], raised |-> raised, store |-> db])

\* a loop without the except clause: the ValueError ends it
DriverSkip_NoExcept ==
    /\ Attempting
    /\ LET d == SqlAlchemy(disk[sessions_json[idx]])
       IN  /\ d.raised = "ValueError"
           /\ dumper' = d
           /\ log' = Logged(d.raised, store)
    /\ driver' = "crashed"
    /\ UNCHANGED <<result, disk, store, session_tx, session_new, runs, last, committed,
                   sessions_json, idx>>

\* except ValueError: logger.error(...); continue
DriverSkip ==
    /\ Attempting
    /\ LET d == SqlAlchemy(disk[sessions_json[idx]])
       IN  /\ d.raised = "ValueError"
           /\ dumper' = d
           /\ log' = Logged(d.raised, store)
    /\ idx' = idx + 1
    /\ UNCHANGED <<result, disk, store, session_tx, session_new, runs, last, committed,
                   sessions_json, driver>>

\* the constructor raises something else: nothing catches it
DriverInitCrash ==
    /\ Attempting
    /\ LET d == SqlAlchemy(disk[sessions_json[idx]])
       IN  /\ d.raised \notin {None, "ValueError"}
           /\ dumper' = d
           /\ log' = Logged(d.raised, store)
    /\ driver' = "crashed"
    /\ UNCHANGED <<result, disk, store, session_tx, session_new, runs, last, committed,
                   sessions_json, idx>>

\* else: d.to_db(); an exception of to_db is not caught either
DriverToDb(commit_fails) ==
    /\ Attempting
    /\ LET d == SqlAlchemy(disk[sessions_json[idx]])
       IN  /\ d.raised = None
           /\ dumper' = d
           /\ RunToDb(d.value, TRUE, commit_fails)
    /\ log' = Logged(last'.raised, store')
    /\ IF last'.raised = None
       THEN idx' = idx + 1 /\ driver' = driver
       ELSE idx' = idx /\ driver' = "crashed"
    /\ UNCHANGED <<result, disk, sessions_json>>

\* the list is exhausted
DriverDone ==
    /\ driver = "running"
    /\ idx > Len(sessions_json)
    /\ driver' = "done"
    /\ UNCHANGED <<dumper, result, disk, store, session_tx, session_new, runs, last,
                   committed, sessions_json, idx, log>>

NextDriver ==
    \/ DriverSkip
    \/ DriverInitCrash
    \/ \E commit_fails \in BOOLEAN : DriverToDb(commit_fails)
    \/ DriverDone

SpecDriver == InitDriver /\ [][NextDriver]_vars

(***************************************************************************)
(* Properties of the reconciler (SpecReconcile)                            *)
(***************************************************************************)
\* the position of the last occurrence of k among the first n elements of s
LastIndex(s, n, k) == CHOOSE i \in 1..n : s[i] = k /\ \A j \in (i + 1)..n : s[j] # k

\* C1: whenever the configuration record is present, probe_serial_number_to_letter
\* does not raise and is the positional zip of the record's serial numbers and letters
\* (as a mapping: a repeated serial number keeps its last letter), whatever the two
\* metrics-file mappings hold.
C1_ConfigZip ==
    (result.evaluated /\ dumper.value.settings_xml_info.present) =>
        LET sn == dumper.value.settings_xml_info.probe_serial_numbers
            pl == dumper.value.settings_xml_info.probe_letters
            n == Min(Len(sn), Len(pl))
        IN  /\ result.raised = None
            /\ Injective([i \in 1..Len(result.value) |-> result.value[i][1]])
            /\ DictKeys(result.value) = {sn[i] : i \in 1..n}
            /\ \A i \in 1..Len(result.value) :
                  result.value[i][2] = pl[LastIndex(sn, n, result.value[i][1])]

\* C1 witness: a configuration record with probes was reconciled while the metrics
\* files alone would have given a different, non-empty mapping
C1_Witness ==
    /\ result.evaluated
    /\ dumper.value.settings_xml_info.present
    /\ result.value # <<>>
    /\ LetterFromMetricsCsv(dumper.value).raised = None
    /\ LetterFromMetricsCsv(dumper.value).value # <<>>
    /\ LetterFromMetricsCsv(dumper.value).value # result.value

\* C2: without a configuration record, probe_serial_number_to_letter returns (without
\* an error) the mapping whose keys are exactly the serial numbers whose metrics path
\* is also a value of probe_letter_to_metrics_csv, each mapped to a letter owning that
\* path; every other serial number is left out.
C2_FallbackDropsUnmatched ==
    (result.evaluated /\ ~dumper.value.settings_xml_info.present) =>
        LET l2c == dumper.value.probe_letter_to_metrics_csv
            s2c == dumper.value.probe_serial_number_to_metrics_csv
        IN  /\ result.raised = None
            /\ DictKeys(result.value) =
                  {s2c[i][1] : i \in {j \in 1..Len(s2c) : s2c[j][2] \in Range(DictValues(l2c))}}
            /\ \A i \in 1..Len(result.value) :
                  \E j \in 1..Len(l2c) :
                      /\ l2c[j][1] = result.value[i][2]
                      /\ l2c[j][2] = DictGet(s2c, result.value[i][1])

(***************************************************************************)
(* Properties of one ingested session (SpecIngest)                         *)
(***************************************************************************)
ObjsOf(objs, table) == SelectSeq(objs, LAMBDA o : o.table = table)

RowsWith(db, table, pk) ==
    {i \in 1..Len(db[table]) : PK(table, db[table][i]) = pk}

\* tag occurs in type_string: some position where every character of tag matches
OccursIn(tag, type_string) ==
    \E k \in 0..(Len(type_string) - Len(tag)) :
        \A j \in 1..Len(tag) : type_string[k + j] = tag[j]

ExpectedVersion(type_string) ==
    IF OccursIn(Str_1_0, type_string) THEN Str_1_0
    ELSE IF OccursIn(Str_Ultra, type_string) THEN Str_Ultra
    ELSE Str_unknown

\* C6: the Probe records a to_db run builds are exactly one per serial number of the
\* configuration record's probe list, in order, each with the first tag of ('1.0',
\* 'Ultra') that occurs in the type string at the same position, or 'unknown' when
\* none occurs; a run that commits stores exactly those rows.
C6_ProbeVersions ==
    (last.op = "to_db" /\ last.objs # <<>>) =>
        LET xml == disk[last.input].settings_xml
            built == ObjsOf(last.objs, "probes")
        IN  /\ Len(built) = Len(xml.probe_serial_numbers)
            /\ \A i \in 1..Len(built) :
                  /\ built[i].row.serial_number = xml.probe_serial_numbers[i]
                  /\ built[i].row.neuropixels_version = ExpectedVersion(xml.probe_types[i])
                  /\ last.raised = None =>
                        \E j \in 1..Len(store.probes) : store.probes[j] = built[i].row

\* C6 witness: a committed run whose probe list has a type string holding both tags
\* and one holding none
C6_Witness ==
    /\ last.op = "to_db"
    /\ last.raised = None
    /\ LET xml == disk[last.input].settings_xml
       IN  /\ Str_Ultra \o <<" ">> \o Str_1_0 \in Range(xml.probe_types)
           /\ Str_Neuropixels \o <<"2", ".", "0">> \in Range(xml.probe_types)

HasConfigButNoMetrics(session) ==
    session.settings_xml.present /\ session.probe_letter_to_metrics_csv_path = <<>>

\* C5 (as claimed): a session with a configuration record and zero metrics files is
\* ingested: its dumper is constructed, and a to_db run commits its Session row, its
\* Recording row, one Probe row per configured serial number and no ProbeRecording row.
C5_ZeroMetricsIngested ==
    HasConfigButNoMetrics(disk[1]) =>
        /\ dumper.raised \in {"unconstructed", None}
        /\ (last.op = "to_db" /\ ~last.commit_fails /\ session_tx = "active") =>
              /\ last.raised = None
              /\ RowsWith(store, "lims_ecephys_sessions", <<disk[1].id>>) # {}
              /\ RowsWith(store, "recordings", <<disk[1].settings_xml.settings_xml_md5>>) # {}
              /\ \A sn \in Range(disk[1].settings_xml.probe_serial_numbers) :
                    RowsWith(store, "probes", <<sn>>) # {}
              /\ \A sn \in SerialNumbers :
                    RowsWith(store, "probe_recordings",
                             <<disk[1].settings_xml.settings_xml_md5, sn>>) = {}

\* C5 (amended): a session with a configuration record and zero metrics files is not
\* ingested: its constructor raises ValueError (MissingMetadata), to_db never runs for
\* it and the database keeps exactly the rows it had.
C5_ZeroMetricsRejected ==
    HasConfigButNoMetrics(disk[1]) =>
        /\ dumper.raised \in {"unconstructed", "ValueError"}
        /\ last.op = "none"
        /\ store = ImportedStore

\* C5 witness: the constructor ran on such a session with configured probes
C5_Witness ==
    /\ HasConfigButNoMetrics(disk[1])
    /\ disk[1].settings_xml.probe_serial_numbers # <<>>
    /\ dumper.raised = "ValueError"

\* C10: for a session with a configuration record and at least one metrics file,
\* neither the constructor nor to_db raises because a configured probe has a null
\* letter or a letter without a metrics file (no KeyError), and a run that commits
\* leaves exactly one ProbeRecording (configuration hash, serial number), carrying the
\* letter, for each reconciled pair whose letter has a metrics file, and no other
\* ProbeRecording of that recording.
C10_UnmatchedProbesDropped ==
    \A s \in Range(disk) :
        (s.settings_xml.present /\ s.probe_letter_to_metrics_csv_path # <<>>) =>
            /\ (dumper.value.session.id = s.id \/ dumper.raised # None) => dumper.raised # "KeyError"
            /\ (last.op = "to_db" /\ last.input = s.id) =>
                  /\ last.raised # "KeyError"
                  /\ last.raised = None =>
                        \A sn \in SerialNumbers :
                            LET pairs == {i \in 1..Len(s.settings_xml.probe_serial_numbers) :
                                            /\ s.settings_xml.probe_serial_numbers[i] = sn
                                            /\ DictHas(s.probe_letter_to_metrics_csv_path,
                                                       s.settings_xml.probe_letters[i])}
                                rows == RowsWith(store, "probe_recordings",
                                                 <<s.settings_xml.settings_xml_md5, sn>>)
                            IN  /\ Cardinality(rows) = Cardinality(pairs)
                                /\ \A i \in pairs, j \in rows :
                                      store.probe_recordings[j].probe_letter =
                                          s.settings_xml.probe_letters[i]

(***************************************************************************)
(* Properties of repeated to_db runs on one database (Spec)                *)
(***************************************************************************)
OneRowPerPrimaryKey(db) ==
    \A t \in Tables : \A i, j \in 1..Len(db[t]) :
        PK(t, db[t][i]) = PK(t, db[t][j]) => i = j

\* C3: every table always holds at most one row per primary key, and a to_db run with
\* overwrite_existing = true that follows a committed run on the same input (and meets
\* no storage failure) commits and leaves the database exactly as that run left it.
C3_IdempotentUpsert ==
    /\ OneRowPerPrimaryKey(store)
    /\ (last.op = "to_db" /\ last.repeat /\ last.overwrite_existing /\ ~last.commit_fails) =>
          /\ last.raised = None
          /\ store = last.before
          /\ \A i \in 1..Len(last.objs) :
                Cardinality(RowsWith(store, last.objs[i].table,
                                     PK(last.objs[i].table, last.objs[i].row))) = 1

\* C3 witness: the third run in a row on one input, all committed, the last a merge of
\* a session with probe recordings and units
C3_Witness ==
    /\ runs = 3
    /\ last.op = "to_db" /\ last.repeat /\ last.overwrite_existing /\ last.raised = None
    /\ ObjsOf(last.objs, "probe_recordings") # <<>>
    /\ ObjsOf(last.objs, "sorted_units") # <<>>

\* C4: a to_db run with overwrite_existing = false that follows a committed run on the
\* same input fails with DuplicateKey and changes no row.
C4_SecondInsertFails ==
    (last.op = "to_db" /\ last.repeat /\ ~last.overwrite_existing) =>
        /\ last.raised = "DuplicateKey"
        /\ store = last.before

\* C4 witness: such a second run, on a session with probes
C4_Witness ==
    /\ last.op = "to_db" /\ last.repeat /\ ~last.overwrite_existing
    /\ ~last.commit_fails
    /\ ObjsOf(last.objs, "probes") # <<>>

\* C7: every ProbeRecording row of the database references a probe serial number that
\* has a Probe row and a configuration hash that has a Recording row; a committed run
\* that wrote a ProbeRecording wrote the Probe of its serial number and the Recording
\* of its hash in the same transaction.
C7_ProbeRecordingReferences ==
    /\ \A i \in 1..Len(store.probe_recordings) :
          /\ RowsWith(store, "probes", <<store.probe_recordings[i].probe_serial_number>>) # {}
          /\ RowsWith(store, "recordings", <<store.probe_recordings[i].settings_xml_md5>>) # {}
    /\ (last.op = "to_db" /\ last.raised = None) =>
          \A pr \in Range(ObjsOf(last.objs, "probe_recordings")) :
              /\ \E p \in Range(ObjsOf(last.objs, "probes")) :
                    p.row.serial_number = pr.row.probe_serial_number
              /\ \E r \in Range(ObjsOf(last.objs, "recordings")) :
                    r.row.settings_xml_md5 = pr.row.settings_xml_md5

\* C7 witness: a committed run wrote a ProbeRecording for a serial number that had no
\* Probe row before it
C7_Witness ==
    /\ last.op = "to_db" /\ last.raised = None
    /\ \E pr \in Range(ObjsOf(last.objs, "probe_recordings")) :
          RowsWith(last.before, "probes", <<pr.row.probe_serial_number>>) = {}

\* C8: a to_db run that fails leaves the database as it was before it, and every row
\* of the database was written by the import or by a run that committed: no record of
\* a failed run shows up, in that run or in a later one on the same ORM session.
C8_FailedRunLeavesNoTrace ==
    /\ (last.op = "to_db" /\ last.raised # None) => store = last.before
    /\ RowsOf(store) \subseteq committed

\* C8 witness: a later run on the session of a run that had failed at its commit, with
\* records of its own to write
C8_Witness ==
    /\ last.op = "to_db"
    /\ session_tx = "deactive"
    /\ last.raised = "PendingRollback"
    /\ Len(last.objs) > 2

(***************************************************************************)
(* Properties of the driver loop (SpecDriver)                              *)
(***************************************************************************)
PrimaryKeys(db) == {<<rw[1], PK(rw[1], rw[2])>> : rw \in RowsOf(db)}

StoreBefore(k) == IF k = 1 THEN ImportedStore ELSE log[k - 1].store

C9_Order ==
    /\ Len(log) <= Len(sessions_json)
    /\ \A k \in 1..Len(log) : log[k].pos = k /\ log[k].session = sessions_json[k]
    /\ driver = "running" => idx = Len(log) + 1
    /\ driver = "done" => Len(log) = Len(sessions_json)

C9_SkipIsNotFatal ==
    /\ driver = "crashed" => (log # <<>> /\ log[Len(log)].raised \notin {None, "ValueError"})
    /\ \A k \in 1..Len(log) :
          /\ log[k].raised = "ValueError" => log[k].store = StoreBefore(k)
          /\ PrimaryKeys(log[k].store) \subseteq PrimaryKeys(store)

\* a skipped entry is followed by the attempt of the next one: the loop stands at it,
\* running
C9_NextIsAttempted ==
    (log # <<>> /\ log[Len(log)].raised = "ValueError" /\ Len(log) < Len(sessions_json)) =>
        /\ Attempting
        /\ idx = Len(log) + 1

\* C9: the driver attempts the entries of sessions.json in list order, each at most
\* once; a session whose constructor raises ValueError (MissingMetadata) is logged and
\* skipped without touching the database, never ends the loop (the loop ends early only
\* on another exception), and leaves the loop at the next entry, ready to attempt it;
\* the rows committed for earlier sessions stay in the database.
C9_DriverSkipsMissingMetadata ==
    /\ C9_Order
    /\ C9_SkipIsNotFatal
    /\ C9_NextIsAttempted

\* C9 witness: a session was committed, the next one was skipped for missing metadata,
\* and a later one was attempted after it
C9_Witness ==
    /\ Len(log) >= 3
    /\ log[1].raised = None
    /\ log[2].raised = "ValueError"
    /\ log[1].store # ImportedStore
    /\ log[3].raised = None
    /\ store = log[1].store

====
